---------------------------- MODULE Spec2Model ----------------------------
(***************************************************************************)
(* A model of sonardsp: propagation.py (speed of sound, absorption,        *)
(* transmission loss) and waveform.py (chirp generation, pulse             *)
(* compression).                                                           *)
(*                                                                         *)
(* The library is a set of functions a caller invokes one at a time.  The  *)
(* state is what a caller can observe: the record of the last call of each *)
(* family (arguments, outcome, warnings that reached the caller) and the   *)
(* caller's own distance object, which the loss functions receive by       *)
(* reference.                                                              *)
(*                                                                         *)
(* Units.  Temperature T is in whole degrees Celsius, depth z in whole     *)
(* metres, salinity S in whole ppt, frequency in whole Hz; acidity is      *)
(* carried in tenths of a pH unit (ph10 = 80 is pH 8).  The closed-form    *)
(* polynomials and exponentials are floating point; their value is kept as *)
(* a term naming the formula and the arguments the formula reads (after    *)
(* the depth clamp), and the conditions under which Python's math module   *)
(* raises while evaluating them are modelled explicitly.                   *)
(***************************************************************************)
EXTENDS Integers, Sequences, FiniteSets, TLC

VARIABLES
    envCall,   \* the caller's last call of an environmental function
    d,         \* the caller's distance object, passed by reference
    alpha,     \* the absorption coefficient the caller uses with d, in dB/km
    loss,      \* the latest result of each loss function on d
    lastLoss,  \* the latest loss call: its function and d's values before it
    chirpCall, \* the caller's last call of gen_lfm_chirp
    pcCall     \* the caller's last call of compress_pulses

vars == <<envCall, d, alpha, loss, lastLoss, chirpCall, pcCall>>

\* The longest pulse width asked for, in milliseconds.
MaxPwMs == 4

\* The longest last axis of a signal, the most samples a signal holds, the
\* largest batch dimension (and most rows), and the most samples a reference
\* holds.
MaxSigLen == 3
MaxSigSize == 4
MaxBatch == 2
MaxRefSize == 3

\* The longest distance vector the caller builds.
MaxVecLen == 2

(***************************************************************************)
(* Inputs the environmental functions are exercised on.  Each set holds    *)
(* values inside, on the edge of and outside every declared domain.        *)
(***************************************************************************)
Temps == {-274, -3, -2, 0, 1, 2, 10, 22, 25, 30, 32, 35, 40}
Depths == {-50, 0, 3500, 3999, 4000, 7000, 7999, 8000, 10000, 12000}
Sals == {-1, 0, 3, 25, 28, 30, 35, 37, 40, 42, 45, 48}
Freqs == {50, 5000, 9999, 10000, 20000, 500000, 500001, 2000000}
Phs == {75, 80, 83, 85}

NoValue == [formula |-> "none", at |-> <<>>]

\* An evaluation that returned val after emitting the warnings warns.
Returned(val, warns) == [exc |-> "none", val |-> val, warns |-> warns]

\* An evaluation that raised exc after emitting the warnings warns.
Raised(exc, warns) == [exc |-> exc, val |-> NoValue, warns |-> warns]

\* The depth used as given.
ClampDepthMissing(z) == z

\* if z < 0: z = 0
ClampDepth(z) == IF z < 0 THEN 0 ELSE z

\* T_kel = T + C_TO_KEL_OFFSET, in hundredths of a kelvin.
TKel100(T) == 100 * T + 27315

\* math.exp(-num / T_kel) raises OverflowError when its argument exceeds
\* ln(DBL_MAX) = 709.78...: T_kel < 0 and num > 709.78 * (-T_kel).
ExpOverflows(num, tk100) ==
    /\ tk100 < 0
    /\ -tk100 <= (num * 10000) \div 70978

\* 10 ** (k - num / T_kel) raises OverflowError when the exponent exceeds
\* log10(DBL_MAX) = 308.25...: T_kel < 0 and num > (308.25 - k) * (-T_kel).
PowOverflows(k, num, tk100) ==
    /\ tk100 < 0
    /\ -tk100 <= (num * 10000) \div (30825 - 100 * k)

WarnMackenzie == "Inputs are outside reliability limits for Mackenzie"
WarnCoppens == "Inputs are outside reliability limits for Coppens"
WarnFrancois == "Inputs are outside reliability limits for Francois and Garrison"
WarnAinslie == "Inputs are outside reliability limits for Ainslie and McColm"
WarnAllSpeed == "Inputs are outside reliability limits for all speed of sound models"
WarnAllAbsorption == "Inputs are outside reliability limits for all absorption models"

(***************************************************************************)
(* Speed of sound                                                          *)
(***************************************************************************)
MackenzieOutside(T, z, S) == T < 2 \/ T > 30 \/ S < 25 \/ S > 40 \/ z > 8000

c_mackenzie(T, z, S) ==
    LET zc == ClampDepth(z)
        w == IF MackenzieOutside(T, zc, S) THEN <<WarnMackenzie>> ELSE <<>>
    IN  Returned([formula |-> "mackenzie", at |-> <<T, zc, S>>], w)

\* Coppens with its limit check left out.
c_coppens_unchecked(T, z, S) ==
    Returned([formula |-> "coppens", at |-> <<T, ClampDepth(z), S>>], <<>>)

CoppensOutside(T, z, S) == T < 0 \/ T > 35 \/ S < 0 \/ S > 45 \/ z > 4000

c_coppens(T, z, S) ==
    LET zc == ClampDepth(z)
        w == IF CoppensOutside(T, zc, S) THEN <<WarnCoppens>> ELSE <<>>
    IN  Returned([formula |-> "coppens", at |-> <<T, zc, S>>], w)

(***************************************************************************)
(* Absorption                                                              *)
(***************************************************************************)
\* The first exception the Fisher and Simmons formula raises, "none" if none.
FisherRaises(freq, T, z) ==
    LET tk == TKel100(T)
    IN  IF tk = 0 THEN "ZeroDivisionError"
        ELSE IF ExpOverflows(1700, tk) \/ ExpOverflows(3052, tk)
             THEN "OverflowError"
        ELSE "none"

alpha_fisher_and_simmons(freq, T, z) ==
    LET zc == ClampDepth(z)
        exc == FisherRaises(freq, T, zc)
    IN  IF exc # "none" THEN Raised(exc, <<>>)
        ELSE Returned([formula |-> "fisher_and_simmons", at |-> <<freq, T, zc>>],
                      <<>>)

\* The limits of the 10 to 500 kHz band applied to every frequency.
FrancoisOutsideOneBand(freq, T, z, S) ==
    T < -2 \/ T > 22 \/ S < 30 \/ S > 35 \/ z > 3500

FrancoisOutside(freq, T, z, S) ==
    IF freq < 10000 THEN TRUE
    ELSE IF freq >= 10000 /\ freq <= 500000
         THEN T < -2 \/ T > 22 \/ S < 30 \/ S > 35 \/ z > 3500
    ELSE T < 0 \/ T > 30 \/ S < 0 \/ S > 40 \/ z > 10000

\* The first exception the Francois and Garrison formula raises: math.sqrt of
\* a negative S / 35, then 1245 / T_kel and the powers of ten.
FrancoisRaises(freq, T, z, S, ph10) ==
    LET tk == TKel100(T)
    IN  IF S < 0 THEN "ValueError"
        ELSE IF tk = 0 THEN "ZeroDivisionError"
        ELSE IF PowOverflows(4, 1245, tk) \/ PowOverflows(8, 1990, tk)
             THEN "OverflowError"
        ELSE "none"

alpha_francois_and_garrison(freq, T, z, S, ph10) ==
    LET zc == ClampDepth(z)
        w == IF FrancoisOutside(freq, T, zc, S) THEN <<WarnFrancois>> ELSE <<>>
        exc == FrancoisRaises(freq, T, zc, S, ph10)
    IN  IF exc # "none" THEN Raised(exc, w)
        ELSE Returned([formula |-> "francois_and_garrison",
                       at |-> <<freq, T, zc, S, ph10>>], w)

AinslieOutside(freq, T, z, S, ph10) ==
    IF freq < 100 THEN TRUE
    ELSE IF freq >= 100 /\ freq <= 1000000
         THEN T < -6 \/ T > 35 \/ S < 5 \/ S > 50 \/ ph10 < 77 \/ ph10 > 83
              \/ z > 7000
    ELSE TRUE

\* The Ainslie and McColm formula raises on math.sqrt of a negative S / 35.
AinslieRaises(freq, T, z, S, ph10) ==
    IF S < 0 THEN "ValueError" ELSE "none"

alpha_ainslie_and_mccolm(freq, T, z, S, ph10) ==
    LET zc == ClampDepth(z)
        w == IF AinslieOutside(freq, T, zc, S, ph10) THEN <<WarnAinslie>> ELSE <<>>
        exc == AinslieRaises(freq, T, zc, S, ph10)
    IN  IF exc # "none" THEN Raised(exc, w)
        ELSE Returned([formula |-> "ainslie_and_mccolm",
                       at |-> <<freq, T, zc, S, ph10>>], w)

(***************************************************************************)
(* Ensembles                                                               *)
(***************************************************************************)
\* np.mean(np.array(values)): the arithmetic mean of the listed values.
Mean(values) == [mean_of |-> values]

\* One model's result as an ensemble files it: its value, and whether it
\* goes to valid_results or to invalid_results.
Filed(val, valid) == [val |-> val, valid |-> valid]

Vals(results) == [i \in 1..Len(results) |-> results[i].val]

\* Average valid results if there are any; if everything is invalid, average
\* the invalid results and warn.
Average(results, msg) ==
    LET valid_results == Vals(SelectSeq(results, LAMBDA r : r.valid))
        invalid_results == Vals(SelectSeq(results, LAMBDA r : ~r.valid))
    IN  IF valid_results # <<>>
        THEN Returned(Mean(valid_results), <<>>)
        ELSE Returned(Mean(invalid_results), <<msg>>)

\* A model run under warnings.catch_warnings(record=True): its warnings are
\* recorded in w and do not reach the caller; w decides where the value goes.
Recorded(r) == Filed(r.val, r.warns = <<>>)

speed_of_sound(T, z, S) ==
    LET m == c_mackenzie(T, z, S)
        c == c_coppens(T, z, S)
    IN  IF m.exc # "none" THEN Raised(m.exc, <<>>)
        ELSE IF c.exc # "none" THEN Raised(c.exc, <<>>)
        ELSE Average(<<Recorded(m), Recorded(c)>>, WarnAllSpeed)

\* Fisher and Simmons filed valid for S = 35 at any pH.
FisherFiledValidAtAnyPh(S, ph10) == S = 35

\* Fisher and Simmons is filed valid only for S = 35 and pH = 8.
FisherFiledValid(S, ph10) == S = 35 /\ ph10 = 80

absorption(freq, T, z, S, ph10) ==
    LET fs == alpha_fisher_and_simmons(freq, T, z)
        fg == alpha_francois_and_garrison(freq, T, z, S, ph10)
        am == alpha_ainslie_and_mccolm(freq, T, z, S, ph10)
    IN  IF fs.exc # "none" THEN Raised(fs.exc, fs.warns)
        ELSE IF fg.exc # "none" THEN Raised(fg.exc, <<>>)
        ELSE IF am.exc # "none" THEN Raised(am.exc, <<>>)
        ELSE Average(<<Filed(fs.val, FisherFiledValid(S, ph10)),
                       Recorded(fg), Recorded(am)>>, WarnAllAbsorption)

(***************************************************************************)
(* Transmission loss                                                       *)
(*                                                                         *)
(* Distances are in tenths of a metre, so that 5 is the 0.5 m the clamp    *)
(* acts on; distances of a metre or more are whole powers of ten, whose    *)
(* log10 is exact.  Decibels are in units of 1e-4 dB: alpha / 1000 * d is  *)
(* alpha * d10 of these units.  A distance object is its Python type and   *)
(* its values; a scalar holds one value.                                   *)
(***************************************************************************)
Dists == {0, 5, 10, 100}
Alphas == {0, 2, 40}

DistanceVectors == UNION {[1..n -> Dists] : n \in 1..MaxVecLen}

DistanceObjects ==
    [type : {"scalar"}, vals : [1..1 -> Dists]]
        \cup [type : {"list", "tuple", "ndarray"}, vals : DistanceVectors]

NoDistance == [type |-> "none", vals |-> <<>>]

\* np.log10 of a distance of x10 tenths of a metre, a whole power of ten metres.
RECURSIVE Log10(_)
Log10(x10) == IF x10 <= 10 THEN 0 ELSE 1 + Log10(x10 \div 10)

\* 10 ** (db / 10), kept as a term.
Lin(db) == [ten_to_the_tenth_of |-> db]

\* The four views of a loss whose one-way dB values are db.
LossViews(kind, db) ==
    [exc |-> "none", kind |-> kind,
     lin_one_way |-> [i \in 1..Len(db) |-> Lin(db[i])],
     lin_two_way |-> [i \in 1..Len(db) |-> Lin(db[i] * 2)],
     db_one_way |-> db,
     db_two_way |-> [i \in 1..Len(db) |-> db[i] * 2]]

NotCalled ==
    [exc |-> "not called", kind |-> "none", lin_one_way |-> <<>>,
     lin_two_way |-> <<>>, db_one_way |-> <<>>, db_two_way |-> <<>>]

\* A loss call that ended in the exception exc.
LossRaised(exc) ==
    [exc |-> exc, kind |-> "none", lin_one_way |-> <<>>,
     lin_two_way |-> <<>>, db_one_way |-> <<>>, db_two_way |-> <<>>]

\* A list argument becomes a fresh array; anything else is used as passed.
ResultKind(obj) == IF obj.type = "scalar" THEN "scalar" ELSE "ndarray"

\* alpha * d with every element taken as the first one.
absorption_loss_of_first(obj, a) ==
    [out |-> LossViews(ResultKind(obj),
                       [i \in 1..Len(obj.vals) |-> a * obj.vals[1]]),
     d |-> obj]

\* absorption_loss(d, alpha): the result, and the caller's object afterwards.
\* Only a list is converted to an array; alpha / 1000 is a float, and a float
\* times a tuple raises TypeError.
absorption_loss(obj, a) ==
    IF obj.type = "tuple"
    THEN [out |-> LossRaised("TypeError"), d |-> obj]
    ELSE [out |-> LossViews(ResultKind(obj),
                            [i \in 1..Len(obj.vals) |-> a * obj.vals[i]]),
          d |-> obj]

\* d[np.where(d < 1)] = 1 on an array, d = 1 on a scalar below 1.
ClampToOneMetre(vals) ==
    [i \in 1..Len(vals) |-> IF vals[i] < 10 THEN 10 ELSE vals[i]]

\* The object the caller holds after spreading_loss clamped its argument:
\* np.array(d) copied a list and the scalar branch rebinds a local name, but
\* an ndarray argument is the caller's own array and is clamped in place.
AfterClamp(obj) ==
    IF obj.type = "ndarray"
    THEN [obj EXCEPT !.vals = ClampToOneMetre(obj.vals)]
    ELSE obj

\* spreading_loss(d): the result, and the caller's object afterwards.  A
\* tuple has no shape, so it takes the single-value branch, where d < 1
\* compares a tuple with an int and raises TypeError.
spreading_loss(obj) ==
    LET clamped == ClampToOneMetre(obj.vals)
    IN  IF obj.type = "tuple"
        THEN [out |-> LossRaised("TypeError"), d |-> obj]
        ELSE [out |-> LossViews(ResultKind(obj),
                                [i \in 1..Len(clamped) |->
                                     20 * Log10(clamped[i]) * 10000]),
              d |-> AfterClamp(obj)]

\* transmission_loss(d, alpha): absorption_loss, then spreading_loss, on the
\* same argument; the result, and the caller's object afterwards.
transmission_loss(obj, a) ==
    LET ab == absorption_loss(obj, a)
        sp == spreading_loss(ab.d)
    IN  IF ab.out.exc # "none" THEN [out |-> LossRaised(ab.out.exc), d |-> ab.d]
        ELSE IF sp.out.exc # "none"
             THEN [out |-> LossRaised(sp.out.exc), d |-> sp.d]
        ELSE [out |-> LossViews(ResultKind(obj),
                                [i \in 1..Len(obj.vals) |->
                                     ab.out.db_one_way[i] + sp.out.db_one_way[i]]),
              d |-> sp.d]

(***************************************************************************)
(* Waveform generation                                                     *)
(*                                                                         *)
(* fs is in whole Hz and the pulse width in whole milliseconds, both       *)
(* Python floats as documented.  Times and phases are exact fractions.     *)
(***************************************************************************)
SamplingRates == {500, 1000, 2000}
StartFreqs == {-500, 0, 250}
StopFreqs == {-250, 0, 500}

Fraction(num, den) == [num |-> num, den |-> den]

\* n = math.floor(pw * fs)
SampleCount(fs, pwms) == (pwms * fs) \div 1000

\* gen_lfm_chirp(fs, pw, fstart, fstop).  pw = n / fs is 0.0 when n is 0, and
\* (fstop - fstart) / pw then raises ZeroDivisionError.  Sample i of the chirp
\* is exp(j 2 pi theta) with theta = fstart * t + 0.5 * alpha * t ** 2 at
\* t = i / fs, that is (2 n fstart i + (fstop - fstart) i ** 2) / (2 n fs)
\* turns; the chirp is kept as these phases.
gen_lfm_chirp(fs, pwms, fstart, fstop) ==
    LET n == SampleCount(fs, pwms)
    IN  IF n = 0
        THEN [exc |-> "ZeroDivisionError", t |-> <<>>, chirp |-> <<>>]
        ELSE [exc |-> "none",
              t |-> [k \in 1..n |-> Fraction(k - 1, fs)],
              chirp |-> [k \in 1..n |->
                            Fraction(2 * n * fstart * (k - 1)
                                        + (fstop - fstart) * (k - 1) * (k - 1),
                                     2 * n * fs)]]

(***************************************************************************)
(* Pulse compression                                                       *)
(*                                                                         *)
(* An array is its shape and its elements in C order.  Samples are complex *)
(* numbers with integer parts, <<re, im>>, and the arithmetic is exact:    *)
(* the floating-point error of the FFT is not modelled.                    *)
(***************************************************************************)
CAdd(a, b) == <<a[1] + b[1], a[2] + b[2]>>
CMul(a, b) == <<a[1] * b[1] - a[2] * b[2], a[1] * b[2] + a[2] * b[1]>>
Conj(a) == <<a[1], -a[2]>>

RECURSIVE CSum(_)
CSum(seq) == IF seq = <<>> THEN <<0, 0>> ELSE CAdd(Head(seq), CSum(Tail(seq)))

Max(a, b) == IF a >= b THEN a ELSE b
Min(a, b) == IF a <= b THEN a ELSE b

RECURSIVE Size(_)
Size(shape) == IF shape = <<>> THEN 1 ELSE Head(shape) * Size(Tail(shape))

LastDim(shape) == shape[Len(shape)]
LeadDims(shape) == SubSeq(shape, 1, Len(shape) - 1)
NumRows(a) == Size(LeadDims(a.shape))
Row(a, r) == SubSeq(a.data, (r - 1) * LastDim(a.shape) + 1, r * LastDim(a.shape))

SigSamples == {<<0, 0>>, <<1, 0>>, <<0, 1>>}
RefSamples == {<<1, 0>>, <<0, 1>>}

Arrays(shape, samples) == [shape : {shape}, data : [1..Size(shape) -> samples]]

\* Signals: up to two batch dimensions, possibly of length 0, and a last axis
\* of at least one sample.
SigShapes ==
    {s \in UNION {[1..k -> 0..MaxBatch] \X (1..MaxSigLen) : k \in 0..2} :
        Size(s[1]) <= MaxBatch /\ Size(s[1]) * s[2] <= MaxSigSize}

Signals == UNION {Arrays(Append(s[1], s[2]), SigSamples) : s \in SigShapes}

\* Reference waveforms: 1-D as documented, and 0-D and 2-D ones.
RefShapes ==
    {<<>>} \cup {<<n>> : n \in 1..MaxRefSize}
        \cup {s \in (1..MaxRefSize) \X (1..MaxRefSize) : s[1] * s[2] <= MaxRefSize}

References == UNION {Arrays(s, RefSamples) : s \in RefShapes}

\* The complex conjugate taken as the identity.
conjugateMissing(a) == a

\* np.conjugate(a)
conjugate(a) == [a EXCEPT !.data = [i \in 1..Len(a.data) |-> Conj(a.data[i])]]

\* np.flip(a): every axis reversed, which reverses the elements in C order.
flip(a) ==
    [a EXCEPT !.data = [i \in 1..Len(a.data) |-> a.data[Len(a.data) + 1 - i]]]

\* np.reshape(a, shape=shape) for a shape of a's size.
reshape(a, shape) == [shape |-> shape, data |-> a.data]

PcReturned(a) == [exc |-> "none", shape |-> a.shape, data |-> a.data]
PcRaised(exc) == [exc |-> exc, shape |-> <<>>, data |-> <<>>]

\* The axes fftconvolve transforms: the last one, unless either input has
\* length 1 there (broadcasting then does the work).
ConvAxes(s1, s2) ==
    IF LastDim(s1) # 1 /\ LastDim(s2) # 1 THEN {Len(s1)} ELSE {}

\* A longer second operand rejected instead of swapped.
ValidOperandsStrict(in1, in2, axes) ==
    IF \E i \in axes : in1.shape[i] < in2.shape[i]
    THEN [exc |-> "ValueError", a |-> in1, b |-> in2]
    ELSE [exc |-> "none", a |-> in1, b |-> in2]

\* The operands of a 'valid' convolution: the shapes must agree or be 1 off
\* the transformed axes, and the inputs are swapped when the second is the
\* longer along them.
ValidOperands(in1, in2, axes) ==
    LET s1 == in1.shape
        s2 == in2.shape
        ok1 == \A i \in axes : s1[i] >= s2[i]
        ok2 == \A i \in axes : s2[i] >= s1[i]
    IN  IF \E i \in (1..Len(s1)) \ axes : s1[i] # s2[i] /\ s1[i] # 1 /\ s2[i] # 1
        THEN [exc |-> "ValueError", a |-> in1, b |-> in2]
        ELSE IF ~(ok1 \/ ok2) THEN [exc |-> "ValueError", a |-> in1, b |-> in2]
        ELSE IF ~ok1 THEN [exc |-> "none", a |-> in2, b |-> in1]
        ELSE [exc |-> "none", a |-> in1, b |-> in2]

\* The full linear convolution of two rows.
FullConvolve(x, y) ==
    [m \in 1..(Len(x) + Len(y) - 1) |->
        CSum([j \in 1..Len(x) |->
                 IF m - j + 1 \in 1..Len(y)
                 THEN CMul(x[j], y[m - j + 1])
                 ELSE <<0, 0>>])]

\* The middle n elements of a row.
Centered(row, n) ==
    LET start == (Len(row) - n) \div 2
    IN  SubSeq(row, start + 1, start + n)

\* Every row read as the first one.
BroadcastRowFirst(a, r) == Row(a, 1)

\* Row r of an array broadcast against the batch: an array of one row (the
\* kernel, whose leading dimensions are all 1) lends that row to every r.
BroadcastRow(a, r) == IF NumRows(a) = 1 THEN Row(a, 1) ELSE Row(a, r)

\* Row r of the 'valid' convolution of a with b along the last axis: the
\* centred part of the full convolution, or, with no axis to transform, the
\* broadcast product.
ConvolveRow(a, b, axes, r) ==
    LET na == LastDim(a.shape)
        nb == LastDim(b.shape)
        x == BroadcastRow(a, r)
        y == BroadcastRow(b, r)
    IN  IF axes = {}
        THEN [k \in 1..Max(na, nb) |-> CMul(x[IF na = 1 THEN 1 ELSE k],
                                            y[IF nb = 1 THEN 1 ELSE k])]
        ELSE Centered(FullConvolve(x, y), na - nb + 1)

\* Rows r..rows of that convolution, one after the other in C order.
RECURSIVE ConvolveFrom(_, _, _, _, _)
ConvolveFrom(a, b, axes, r, rows) ==
    IF r > rows THEN <<>>
    ELSE ConvolveRow(a, b, axes, r) \o ConvolveFrom(a, b, axes, r + 1, rows)

\* The 'valid' convolution of a with b along the last axis, the leading
\* dimensions broadcast.
ConvolveRows(a, b, axes) ==
    LET na == LastDim(a.shape)
        nb == LastDim(b.shape)
        lead == [i \in 1..(Len(a.shape) - 1) |-> Max(a.shape[i], b.shape[i])]
        n == IF axes = {} THEN Max(na, nb) ELSE na - nb + 1
    IN  [shape |-> Append(lead, n),
         data |-> ConvolveFrom(a, b, axes, 1, Size(lead))]

\* signal.fftconvolve(in1, in2, mode='valid', axes=last axis)
fftconvolve(in1, in2) ==
    IF Len(in1.shape) # Len(in2.shape) THEN PcRaised("ValueError")
    ELSE IF Size(in1.shape) = 0 \/ Size(in2.shape) = 0
         THEN PcReturned([shape |-> <<0>>, data |-> <<>>])
    ELSE LET axes == ConvAxes(in1.shape, in2.shape)
             ops == ValidOperands(in1, in2, axes)
         IN  IF ops.exc # "none" THEN PcRaised(ops.exc)
             ELSE PcReturned(ConvolveRows(ops.a, ops.b, axes))

pc_scipy_fftconvolve(sig, ref_wfm) ==
    IF sig.shape = <<>> THEN PcRaised("IndexError")
    ELSE LET ref_flip_conj == flip(conjugate(ref_wfm))
             kernel_shape ==
                 Append([x \in 1..(Len(sig.shape) - 1) |-> 1],
                        Size(ref_flip_conj.shape))
         IN  fftconvolve(sig, reshape(ref_flip_conj, kernel_shape))

compress_pulses(sig, ref_wfm) == pc_scipy_fftconvolve(sig, ref_wfm)

\* The outcome of convolving one row: the exception, or the samples.
RowReturned(data) == [exc |-> "none", data |-> data]
RowRaised(exc) == [exc |-> exc, data |-> <<>>]

\* The 'valid' part of the full convolution of a with a shorter or equal v.
ValidPart(a, v) == SubSeq(FullConvolve(a, v), Len(v), Len(a))

\* np.convolve(a, v, mode='valid') for a row a and a kernel array v: v is
\* taken with ndmin=1, so a 0-D kernel is one sample and a kernel of more
\* dimensions is rejected as too deep; the two are swapped when v is longer.
np_convolve(a, v) ==
    IF Len(v.shape) > 1 THEN RowRaised("ValueError")
    ELSE IF Len(a) = 0 \/ Len(v.data) = 0 THEN RowRaised("ValueError")
    ELSE IF Len(v.data) > Len(a) THEN RowReturned(ValidPart(v.data, a))
    ELSE RowReturned(ValidPart(a, v.data))

\* signal.convolve(a, v, mode='valid') for a row a and a kernel array v: the
\* two must have the same number of dimensions; then np.convolve does it.
scipy_convolve(a, v) ==
    IF Len(v.shape) # 1 THEN RowRaised("ValueError")
    ELSE np_convolve(a, v)

\* The convolution function a loop implementation calls on each row.
RowConvolve(conv, a, v) ==
    IF conv = "np.convolve" THEN np_convolve(a, v) ELSE scipy_convolve(a, v)

\* for idx in np.ndindex(sig.shape[:-1]): pc[idx] = conv(sig[idx], kernel),
\* from row r on: the rows' samples in C order, or the first exception.
RECURSIVE LoopFrom(_, _, _, _)
LoopFrom(sig, kernel, conv, r) ==
    IF r > NumRows(sig) THEN RowReturned(<<>>)
    ELSE LET row == RowConvolve(conv, Row(sig, r), kernel)
             rest == LoopFrom(sig, kernel, conv, r + 1)
         IN  IF row.exc # "none" THEN row
             ELSE IF rest.exc # "none" THEN rest
             ELSE RowReturned(row.data \o rest.data)

\* The loop implementations: pc is allocated with the signal's leading
\* dimensions and max(A,B) - min(A,B) + 1 samples per row, then filled row
\* by row.
LoopCompress(sig, ref_wfm, conv) ==
    IF sig.shape = <<>> THEN PcRaised("IndexError")
    ELSE LET A == Size(ref_wfm.shape)
             B == LastDim(sig.shape)
             pc_n == Max(A, B) - Min(A, B) + 1
             pc_shape == Append(LeadDims(sig.shape), pc_n)
             ref_flip_conj == flip(conjugate(ref_wfm))
             rows == LoopFrom(sig, ref_flip_conj, conv, 1)
         IN  IF rows.exc # "none" THEN PcRaised(rows.exc)
             ELSE PcReturned([shape |-> pc_shape, data |-> rows.data])

pc_numpy_convolve(sig, ref_wfm) == LoopCompress(sig, ref_wfm, "np.convolve")

pc_scipy_convolve(sig, ref_wfm) == LoopCompress(sig, ref_wfm, "signal.convolve")

\* signal.oaconvolve(in1, in2, mode='valid', axes=last axis): the checks of
\* fftconvolve, fftconvolve itself for equal shapes, and otherwise the same
\* convolution computed block by block.
oaconvolve(in1, in2) ==
    IF Len(in1.shape) # Len(in2.shape) THEN PcRaised("ValueError")
    ELSE IF Size(in1.shape) = 0 \/ Size(in2.shape) = 0
         THEN PcReturned([shape |-> <<0>>, data |-> <<>>])
    ELSE IF in1.shape = in2.shape THEN fftconvolve(in1, in2)
    ELSE LET axes == ConvAxes(in1.shape, in2.shape)
             ops == ValidOperands(in1, in2, axes)
         IN  IF ops.exc # "none" THEN PcRaised(ops.exc)
             ELSE PcReturned(ConvolveRows(ops.a, ops.b, axes))

pc_scipy_oaconvolve(sig, ref_wfm) ==
    IF sig.shape = <<>> THEN PcRaised("IndexError")
    ELSE LET ref_flip_conj == flip(conjugate(ref_wfm))
             kernel_shape ==
                 Append([x \in 1..(Len(sig.shape) - 1) |-> 1],
                        Size(ref_flip_conj.shape))
         IN  oaconvolve(sig, reshape(ref_flip_conj, kernel_shape))

PcImpls == {"_pc_numpy_convolve", "_pc_scipy_convolve", "_pc_scipy_oaconvolve",
            "_pc_scipy_fftconvolve"}

PcApply(fn, sig, ref_wfm) ==
    CASE fn = "_pc_numpy_convolve" -> pc_numpy_convolve(sig, ref_wfm)
      [] fn = "_pc_scipy_convolve" -> pc_scipy_convolve(sig, ref_wfm)
      [] fn = "_pc_scipy_oaconvolve" -> pc_scipy_oaconvolve(sig, ref_wfm)
      [] fn = "_pc_scipy_fftconvolve" -> pc_scipy_fftconvolve(sig, ref_wfm)

(***************************************************************************)
(* The caller's view of the environmental functions                        *)
(***************************************************************************)
EnvFns == {"c_mackenzie", "c_coppens", "speed_of_sound",
           "alpha_fisher_and_simmons", "alpha_francois_and_garrison",
           "alpha_ainslie_and_mccolm", "absorption"}

\* The outcome of calling fn with the arguments a.
EnvApply(fn, a) ==
    CASE fn = "c_mackenzie" -> c_mackenzie(a.T, a.z, a.S)
      [] fn = "c_coppens" -> c_coppens(a.T, a.z, a.S)
      [] fn = "speed_of_sound" -> speed_of_sound(a.T, a.z, a.S)
      [] fn = "alpha_fisher_and_simmons" ->
            alpha_fisher_and_simmons(a.freq, a.T, a.z)
      [] fn = "alpha_francois_and_garrison" ->
            alpha_francois_and_garrison(a.freq, a.T, a.z, a.S, a.ph10)
      [] fn = "alpha_ainslie_and_mccolm" ->
            alpha_ainslie_and_mccolm(a.freq, a.T, a.z, a.S, a.ph10)
      [] fn = "absorption" -> absorption(a.freq, a.T, a.z, a.S, a.ph10)

EnvIdle == [fn |-> "none", args |-> <<>>, out |-> Returned(NoValue, <<>>)]

\* The caller calls fn(a) and observes the outcome.
EnvCalled(fn, a) ==
    /\ envCall' = [fn |-> fn, args |-> a, out |-> EnvApply(fn, a)]
    /\ UNCHANGED <<d, alpha, loss, lastLoss, chirpCall, pcCall>>

SpeedArgs == [T : Temps, z : Depths, S : Sals]
FisherArgs == [freq : Freqs, T : Temps, z : Depths]
AbsorptionArgs == [freq : Freqs, T : Temps, z : Depths, S : Sals, ph10 : Phs]

\* Each call is made by a caller that holds no earlier outcome.
Do_c_mackenzie ==
    /\ envCall = EnvIdle
    /\ \E a \in SpeedArgs : EnvCalled("c_mackenzie", a)

Do_c_coppens ==
    /\ envCall = EnvIdle
    /\ \E a \in SpeedArgs : EnvCalled("c_coppens", a)

Do_speed_of_sound ==
    /\ envCall = EnvIdle
    /\ \E a \in SpeedArgs : EnvCalled("speed_of_sound", a)

Do_alpha_fisher_and_simmons ==
    /\ envCall = EnvIdle
    /\ \E a \in FisherArgs : EnvCalled("alpha_fisher_and_simmons", a)

Do_alpha_francois_and_garrison ==
    /\ envCall = EnvIdle
    /\ \E a \in AbsorptionArgs : EnvCalled("alpha_francois_and_garrison", a)

Do_alpha_ainslie_and_mccolm ==
    /\ envCall = EnvIdle
    /\ \E a \in AbsorptionArgs : EnvCalled("alpha_ainslie_and_mccolm", a)

Do_absorption ==
    /\ envCall = EnvIdle
    /\ \E a \in AbsorptionArgs : EnvCalled("absorption", a)

\* The caller is done with the outcome of its last call.
EnvDone ==
    /\ envCall # EnvIdle
    /\ envCall' = EnvIdle
    /\ UNCHANGED <<d, alpha, loss, lastLoss, chirpCall, pcCall>>

(***************************************************************************)
(* The caller's view of the loss functions                                 *)
(***************************************************************************)
LossFns == {"absorption_loss", "spreading_loss", "transmission_loss"}

LossApply(fn, obj, a) ==
    CASE fn = "absorption_loss" -> absorption_loss(obj, a)
      [] fn = "spreading_loss" -> spreading_loss(obj)
      [] fn = "transmission_loss" -> transmission_loss(obj, a)

NoLossCall == [fn |-> "none", before |-> <<>>]

\* The caller builds a distance object and picks an absorption coefficient.
NewDistance ==
    /\ d = NoDistance
    /\ d' \in DistanceObjects
    /\ alpha' \in Alphas
    /\ loss' = [fn \in LossFns |-> NotCalled]
    /\ lastLoss' = NoLossCall
    /\ UNCHANGED <<envCall, chirpCall, pcCall>>

\* The caller calls fn on its distance object and keeps the result.
LossCalled(fn) ==
    /\ d # NoDistance
    /\ LET r == LossApply(fn, d, alpha)
       IN  /\ d' = r.d
           /\ loss' = [loss EXCEPT ![fn] = r.out]
           /\ lastLoss' = [fn |-> fn, before |-> d.vals]
    /\ UNCHANGED <<envCall, alpha, chirpCall, pcCall>>

Do_absorption_loss == LossCalled("absorption_loss")
Do_spreading_loss == LossCalled("spreading_loss")
Do_transmission_loss == LossCalled("transmission_loss")

\* The caller drops its distance object and the results computed from it.
DropDistance ==
    /\ d # NoDistance
    /\ d' = NoDistance
    /\ alpha' = 0
    /\ loss' = [fn \in LossFns |-> NotCalled]
    /\ lastLoss' = NoLossCall
    /\ UNCHANGED <<envCall, chirpCall, pcCall>>

(***************************************************************************)
(* The caller's view of the waveform functions                             *)
(***************************************************************************)
ChirpIdle ==
    [fn |-> "none", args |-> <<>>,
     out |-> [exc |-> "none", t |-> <<>>, chirp |-> <<>>]]

ChirpArgs ==
    [fs : SamplingRates, pwms : 0..MaxPwMs, fstart : StartFreqs,
     fstop : StopFreqs]

Do_gen_lfm_chirp ==
    /\ chirpCall = ChirpIdle
    /\ \E a \in ChirpArgs :
          chirpCall' = [fn |-> "gen_lfm_chirp", args |-> a,
                        out |-> gen_lfm_chirp(a.fs, a.pwms, a.fstart, a.fstop)]
    /\ UNCHANGED <<envCall, d, alpha, loss, lastLoss, pcCall>>

ChirpDone ==
    /\ chirpCall # ChirpIdle
    /\ chirpCall' = ChirpIdle
    /\ UNCHANGED <<envCall, d, alpha, loss, lastLoss, pcCall>>

PcIdle ==
    [fn |-> "none", sig |-> [shape |-> <<>>, data |-> <<>>],
     ref |-> [shape |-> <<>>, data |-> <<>>], out |-> PcRaised("none")]

Do_compress_pulses ==
    /\ pcCall = PcIdle
    /\ \E sig \in Signals, ref \in References :
          pcCall' = [fn |-> "compress_pulses", sig |-> sig, ref |-> ref,
                     out |-> compress_pulses(sig, ref)]
    /\ UNCHANGED <<envCall, d, alpha, loss, lastLoss, chirpCall>>

\* The caller calls one implementation of pulse compression by name.
PcCalled(fn) ==
    /\ pcCall = PcIdle
    /\ \E sig \in Signals, ref \in References :
          pcCall' = [fn |-> fn, sig |-> sig, ref |-> ref,
                     out |-> PcApply(fn, sig, ref)]
    /\ UNCHANGED <<envCall, d, alpha, loss, lastLoss, chirpCall>>

Do_pc_numpy_convolve == PcCalled("_pc_numpy_convolve")
Do_pc_scipy_convolve == PcCalled("_pc_scipy_convolve")
Do_pc_scipy_oaconvolve == PcCalled("_pc_scipy_oaconvolve")
Do_pc_scipy_fftconvolve == PcCalled("_pc_scipy_fftconvolve")

PcDone ==
    /\ pcCall # PcIdle
    /\ pcCall' = PcIdle
    /\ UNCHANGED <<envCall, d, alpha, loss, lastLoss, chirpCall>>

Init ==
    /\ chirpCall = ChirpIdle
    /\ pcCall = PcIdle
    /\ envCall = EnvIdle
    /\ d = NoDistance
    /\ alpha = 0
    /\ loss = [fn \in LossFns |-> NotCalled]
    /\ lastLoss = NoLossCall

NextEnv ==
    \/ Do_c_mackenzie
    \/ Do_c_coppens
    \/ Do_speed_of_sound
    \/ Do_alpha_fisher_and_simmons
    \/ Do_alpha_francois_and_garrison
    \/ Do_alpha_ainslie_and_mccolm
    \/ Do_absorption
    \/ EnvDone

SpecEnv == Init /\ [][NextEnv]_vars

NextLoss ==
    \/ NewDistance
    \/ Do_absorption_loss
    \/ Do_spreading_loss
    \/ Do_transmission_loss
    \/ DropDistance

SpecLoss == Init /\ [][NextLoss]_vars

NextChirp ==
    \/ Do_gen_lfm_chirp
    \/ ChirpDone

SpecChirp == Init /\ [][NextChirp]_vars

NextPulse ==
    \/ Do_compress_pulses
    \/ PcDone

SpecPulse == Init /\ [][NextPulse]_vars

NextImpls ==
    \/ Do_pc_numpy_convolve
    \/ Do_pc_scipy_convolve
    \/ Do_pc_scipy_oaconvolve
    \/ Do_pc_scipy_fftconvolve
    \/ PcDone

SpecImpls == Init /\ [][NextImpls]_vars

(***************************************************************************)
(* Properties of the environmental functions                               *)
(***************************************************************************)
\* The models behind an ensemble call, each with its own outcome on the
\* call's arguments and whether it is valid for them.
EnsembleModels(c) ==
    LET a == c.args
    IN  IF c.fn = "speed_of_sound"
        THEN <<[out |-> c_mackenzie(a.T, a.z, a.S),
                valid |-> ~MackenzieOutside(a.T, ClampDepth(a.z), a.S)],
               [out |-> c_coppens(a.T, a.z, a.S),
                valid |-> ~CoppensOutside(a.T, ClampDepth(a.z), a.S)]>>
        ELSE <<[out |-> alpha_fisher_and_simmons(a.freq, a.T, a.z),
                valid |-> a.S = 35 /\ a.ph10 = 80],
               [out |-> alpha_francois_and_garrison(a.freq, a.T, a.z, a.S, a.ph10),
                valid |-> ~FrancoisOutside(a.freq, a.T, ClampDepth(a.z), a.S)],
               [out |-> alpha_ainslie_and_mccolm(a.freq, a.T, a.z, a.S, a.ph10),
                valid |-> ~AinslieOutside(a.freq, a.T, ClampDepth(a.z), a.S,
                                          a.ph10)]>>

GlobalDiagnostic(c) ==
    IF c.fn = "speed_of_sound" THEN WarnAllSpeed ELSE WarnAllAbsorption

Count(seq, x) == Cardinality({i \in 1..Len(seq) : seq[i] = x})

\* The call c returned the mean of the valid models' values without the
\* global diagnostic, or, no model being valid, the mean of all the models'
\* values with the global diagnostic emitted exactly once.
MeanOfValid(c) ==
    LET ms == EnsembleModels(c)
        valid == SelectSeq(ms, LAMBDA m : m.valid)
        vals(q) == [i \in 1..Len(q) |-> q[i].out.val]
    IN  /\ c.out.exc = "none"
        /\ IF valid # <<>>
           THEN /\ c.out.val = Mean(vals(valid))
                /\ Count(c.out.warns, GlobalDiagnostic(c)) = 0
           ELSE /\ c.out.val = Mean(vals(ms))
                /\ Count(c.out.warns, GlobalDiagnostic(c)) = 1

\* C1: every call of speed_of_sound and of absorption returns the arithmetic
\* mean of exactly the valid models' values and emits no global diagnostic,
\* or, when no model is valid, returns the mean of all the models' values and
\* emits the global diagnostic exactly once.
EnsembleReturnsMeanOfValid ==
    envCall.fn \in {"speed_of_sound", "absorption"} => MeanOfValid(envCall)

\* The same statement for the ensemble calls that return: it fails only where
\* a model raises.
EnsembleReturnsMeanOfValidUnlessRaised ==
    (envCall.fn \in {"speed_of_sound", "absorption"} /\ envCall.out.exc = "none")
        => MeanOfValid(envCall)

\* C2: no evaluator and no ensemble ends in an exception, whatever the
\* numeric inputs: every call returns a number.
EnvNeverRaises == envCall.fn \in EnvFns => envCall.out.exc = "none"

\* C10: in every evaluator and both ensembles a call with negative depth has
\* the outcome (value, warnings, exception) of the same call with depth 0.
NegativeDepthIsSurface ==
    (envCall.fn \in EnvFns /\ envCall.args.z < 0)
        => envCall.out = EnvApply(envCall.fn, [envCall.args EXCEPT !.z = 0])

\* absorption was called with a negative depth, returned, and no model warned.
NegativeDepthWitness ==
    /\ envCall.fn = "absorption"
    /\ envCall.args.z < 0
    /\ envCall.out.exc = "none"
    /\ envCall.out.warns = <<>>
    /\ Len(envCall.out.val.mean_of) = 3

\* The evaluator called directly raised no warning: it flagged its input
\* valid.
FlaggedValid == envCall.out.warns = <<>>

\* The depth the evaluators use for a call's depth argument.
DepthUsed == IF envCall.args.z < 0 THEN 0 ELSE envCall.args.z

\* C11: Mackenzie flags its input valid exactly when 2 <= T <= 30 and
\* 25 <= S <= 40 and z < 8000, and Coppens exactly when 0 <= T <= 35 and
\* 0 <= S <= 45 and z < 4000, z taken after clamping to >= 0; the depths
\* z = 8000 and z = 4000 are flagged invalid.
SpeedValidBelowDepthLimit ==
    LET a == envCall.args
    IN  /\ envCall.fn = "c_mackenzie"
            => (FlaggedValid <=> /\ 2 <= a.T /\ a.T <= 30
                                 /\ 25 <= a.S /\ a.S <= 40
                                 /\ DepthUsed < 8000)
        /\ envCall.fn = "c_coppens"
            => (FlaggedValid <=> /\ 0 <= a.T /\ a.T <= 35
                                 /\ 0 <= a.S /\ a.S <= 45
                                 /\ DepthUsed < 4000)

\* The same statement away from the two boundary depths: it fails only at
\* z = 8000 for Mackenzie and z = 4000 for Coppens.
SpeedValidBelowDepthLimitOffBoundary ==
    LET a == envCall.args
    IN  /\ (envCall.fn = "c_mackenzie" /\ a.z # 8000)
            => (FlaggedValid <=> /\ 2 <= a.T /\ a.T <= 30
                                 /\ 25 <= a.S /\ a.S <= 40
                                 /\ DepthUsed < 8000)
        /\ (envCall.fn = "c_coppens" /\ a.z # 4000)
            => (FlaggedValid <=> /\ 0 <= a.T /\ a.T <= 35
                                 /\ 0 <= a.S /\ a.S <= 45
                                 /\ DepthUsed < 4000)

\* The models a call invokes, each with whether the call's input is outside
\* the model's validity range and the warning the model has for that.
InvokedModels(c) ==
    LET a == c.args
        zc == ClampDepth(a.z)
        mackenzie == [outside |-> MackenzieOutside(a.T, zc, a.S),
                      warning |-> WarnMackenzie]
        coppens == [outside |-> CoppensOutside(a.T, zc, a.S),
                    warning |-> WarnCoppens]
        fisher == [outside |-> c.fn = "absorption"
                                   /\ ~(a.S = 35 /\ a.ph10 = 80),
                   warning |-> "none"]
        francois == [outside |-> FrancoisOutside(a.freq, a.T, zc, a.S),
                     warning |-> WarnFrancois]
        ainslie == [outside |-> AinslieOutside(a.freq, a.T, zc, a.S, a.ph10),
                    warning |-> WarnAinslie]
    IN  CASE c.fn = "c_mackenzie" -> <<mackenzie>>
          [] c.fn = "c_coppens" -> <<coppens>>
          [] c.fn = "speed_of_sound" -> <<mackenzie, coppens>>
          [] c.fn = "alpha_fisher_and_simmons" -> <<fisher>>
          [] c.fn = "alpha_francois_and_garrison" -> <<francois>>
          [] c.fn = "alpha_ainslie_and_mccolm" -> <<ainslie>>
          [] c.fn = "absorption" -> <<fisher, francois, ainslie>>

\* The warnings that reached the caller other than the global diagnostics.
ModelWarnings(c) ==
    SelectSeq(c.out.warns, LAMBDA w : w \notin {WarnAllSpeed, WarnAllAbsorption})

BelowBands == envCall.args.freq < 10000
MagnesiumBand == 10000 <= envCall.args.freq /\ envCall.args.freq <= 500000
PureWaterBand == envCall.args.freq > 500000

FisherAmongValid ==
    LET a == envCall.args
        fs == alpha_fisher_and_simmons(a.freq, a.T, a.z)
    IN  /\ Count(envCall.out.warns, WarnAllAbsorption) = 0
        /\ Count(envCall.out.val.mean_of, fs.val) = 1

\* C16: absorption files the Fisher and Simmons result as valid exactly when
\* S = 35 and pH = 8, whatever freq, T and z; and with S = 35 and pH = 8 it
\* never emits the global diagnostic for all absorption models.
FisherValidIffStandardWater ==
    envCall.fn = "absorption" =>
        LET a == envCall.args
        IN  /\ envCall.out.exc = "none"
                  => (FisherAmongValid <=> (a.S = 35 /\ a.ph10 = 80))
            /\ (a.S = 35 /\ a.ph10 = 80)
                  => Count(envCall.out.warns, WarnAllAbsorption) = 0

\* absorption was called on standard water far outside the ranges of the two
\* other models and returned the Fisher and Simmons value alone, unwarned.
FisherValidIffStandardWaterWitness ==
    /\ envCall.fn = "absorption"
    /\ envCall.args.S = 35
    /\ envCall.args.ph10 = 80
    /\ envCall.args.freq = 50
    /\ envCall.args.T = 40
    /\ envCall.args.z = 12000
    /\ envCall.out.exc = "none"
    /\ envCall.out.warns = <<>>
    /\ Len(envCall.out.val.mean_of) = 1
    /\ envCall.out.val.mean_of[1].formula = "fisher_and_simmons"

(***************************************************************************)
(* Properties of the loss functions                                        *)
(***************************************************************************)
\* C3: once absorption_loss, spreading_loss and transmission_loss have each
\* been called on the caller's distance object, in whatever order, the
\* one-way dB of transmission_loss is, element by element, the one-way dB of
\* absorption_loss plus the one-way dB of spreading_loss.
TransmissionIsSumOfParts ==
    (\A fn \in LossFns : loss[fn].exc = "none") =>
        LET tl == loss["transmission_loss"].db_one_way
            ab == loss["absorption_loss"].db_one_way
            sp == loss["spreading_loss"].db_one_way
        IN  /\ Len(tl) = Len(ab)
            /\ Len(tl) = Len(sp)
            /\ \A i \in 1..Len(tl) : tl[i] = ab[i] + sp[i]

\* C4: after any call of a loss function the caller's distance object holds
\* the values it held before the call.
LossCallsLeaveArgument == lastLoss.fn \in LossFns => d.vals = lastLoss.before

\* The result of the latest loss call on one distance v passed as a scalar.
ScalarResult(v) ==
    LossApply(lastLoss.fn, [type |-> "scalar", vals |-> <<v>>], alpha).out

LossViewNames == {"lin_one_way", "lin_two_way", "db_one_way", "db_two_way"}

\* The latest loss call returned four results as long as its argument, whose
\* i-th elements are the four results of the scalar call on the i-th distance.
MatchesScalarCalls ==
    LET out == loss[lastLoss.fn]
        n == Len(lastLoss.before)
    IN  /\ out.exc = "none"
        /\ \A view \in LossViewNames :
              /\ Len(out[view]) = n
              /\ \A i \in 1..n :
                    out[view][i] = ScalarResult(lastLoss.before[i])[view][1]

\* C13: given a list, a tuple or an array of n distances, absorption_loss,
\* spreading_loss and transmission_loss do not fail and return four results
\* of length n whose i-th elements are those of the scalar call on the i-th
\* distance.
LossSameForEverySequence ==
    (lastLoss.fn \in LossFns /\ d.type \in {"list", "tuple", "ndarray"})
        => MatchesScalarCalls

\* C13, amended: given a list or an array of n distances the three functions
\* do not fail and return four results of length n whose i-th elements are
\* those of the scalar call on the i-th distance; given a tuple each of them
\* raises TypeError.
LossSameForListAndArray ==
    /\ (lastLoss.fn \in LossFns /\ d.type \in {"list", "ndarray"})
          => MatchesScalarCalls
    /\ (lastLoss.fn \in LossFns /\ d.type = "tuple")
          => loss[lastLoss.fn].exc = "TypeError"

\* transmission_loss was called with a nonzero coefficient on a list of two
\* distances, the first below one metre and the second above, and returned.
LossSameForListAndArrayWitness ==
    /\ lastLoss.fn = "transmission_loss"
    /\ d.type = "list"
    /\ lastLoss.before = <<5, 100>>
    /\ alpha = 40
    /\ loss["transmission_loss"].exc = "none"
    /\ loss["transmission_loss"].db_one_way = <<200, 204000>>

(***************************************************************************)
(* Properties of the waveform functions                                    *)
(***************************************************************************)
\* C9: every call of gen_lfm_chirp with fs > 0 and pw >= 0 returns a time
\* axis and a waveform of n = floor(pw * fs) samples each, with t[i] = i / fs.
ChirpHasFloorSamples ==
    chirpCall.fn = "gen_lfm_chirp" =>
        LET a == chirpCall.args
            n == (a.pwms * a.fs) \div 1000
        IN  /\ chirpCall.out.exc = "none"
            /\ Len(chirpCall.out.t) = n
            /\ Len(chirpCall.out.chirp) = n
            /\ \A i \in 0..(n - 1) : chirpCall.out.t[i + 1] = Fraction(i, a.fs)

\* The same statement for the calls whose sample count is at least 1.
ChirpHasFloorSamplesUnlessEmpty ==
    (chirpCall.fn = "gen_lfm_chirp"
        /\ (chirpCall.args.pwms * chirpCall.args.fs) \div 1000 >= 1)
        => LET a == chirpCall.args
               n == (a.pwms * a.fs) \div 1000
           IN  /\ chirpCall.out.exc = "none"
               /\ Len(chirpCall.out.t) = n
               /\ Len(chirpCall.out.chirp) = n
               /\ \A i \in 0..(n - 1) : chirpCall.out.t[i + 1] = Fraction(i, a.fs)

(***************************************************************************)
(* Properties of pulse compression                                         *)
(***************************************************************************)
PcMade == pcCall.fn = "compress_pulses"
SigLen == LastDim(pcCall.sig.shape)
RefLen == Size(pcCall.ref.shape)
ValidLen == Max(RefLen, SigLen) - Min(RefLen, SigLen) + 1

\* Row r of the returned array.
OutRow(r) ==
    SubSeq(pcCall.out.data, (r - 1) * LastDim(pcCall.out.shape) + 1,
           r * LastDim(pcCall.out.shape))

\* The returned array has the signal's leading dimensions, in order, and a
\* last axis of max(refLen, sigLen) - min(refLen, sigLen) + 1.
HasValidShape ==
    /\ pcCall.out.exc = "none"
    /\ pcCall.out.shape = Append(LeadDims(pcCall.sig.shape), ValidLen)

\* C5: for every signal with k >= 0 leading dimensions and a last axis of at
\* least one sample, and every 1-D reference of at least one sample,
\* compress_pulses returns an array with the signal's leading dimensions and
\* a last axis of max(refLen, sigLen) - min(refLen, sigLen) + 1.
PulseShapeIsValidLength ==
    (PcMade /\ Len(pcCall.ref.shape) = 1 /\ RefLen >= 1 /\ SigLen >= 1)
        => HasValidShape

\* The same statement for the signals that hold at least one sample.
PulseShapeIsValidLengthUnlessEmpty ==
    (PcMade /\ Len(pcCall.ref.shape) = 1 /\ RefLen >= 1 /\ SigLen >= 1
        /\ Size(pcCall.sig.shape) > 0)
        => HasValidShape

\* sum over i of row[k + i] * conj(ref[i]), k counted from 0.
Correlation(row, ref, k) ==
    CSum([i \in 1..Len(ref) |-> CMul(row[k + i], Conj(ref[i]))])

\* A row of n samples that is zero except for a copy of ref starting at p.
Embedded(ref, p, n) ==
    [i \in 1..n |-> IF i - p \in 1..Len(ref) THEN ref[i - p] ELSE <<0, 0>>]

Mag2(c) == c[1] * c[1] + c[2] * c[2]

Energy(ref) == CSum([i \in 1..Len(ref) |-> <<Mag2(ref[i]), 0>>])

\* C6: for a 1-D reference no longer than the signal's last axis, output
\* sample k of every row is the sum over i of sig[k + i] * conj(ref[i]); and
\* a row that is zero except for a copy of ref at p has its output sample of
\* largest magnitude at p, equal to the sum of |ref[i]|^2.
PulseIsCorrelation ==
    (PcMade /\ Len(pcCall.ref.shape) = 1 /\ RefLen <= SigLen
        /\ Size(pcCall.sig.shape) > 0)
        => /\ HasValidShape
           /\ \A r \in 1..NumRows(pcCall.sig) :
                 LET row == Row(pcCall.sig, r)
                     out == OutRow(r)
                     ref == pcCall.ref.data
                 IN  \A k \in 0..(SigLen - RefLen) :
                        /\ out[k + 1] = Correlation(row, ref, k)
                        /\ row = Embedded(ref, k, SigLen)
                              => /\ out[k + 1] = Energy(ref)
                                 /\ \A j \in 1..ValidLen :
                                       Mag2(out[j]) <= Mag2(out[k + 1])

\* A signal row holds a copy of a reference of two different samples, after
\* one leading zero, and the call returned.
PulseIsCorrelationWitness ==
    /\ PcMade
    /\ pcCall.out.exc = "none"
    /\ Len(pcCall.ref.shape) = 1
    /\ RefLen = 2
    /\ pcCall.ref.data[1] # pcCall.ref.data[2]
    /\ SigLen = 3
    /\ Size(pcCall.sig.shape) > 0
    /\ Row(pcCall.sig, 1) = Embedded(pcCall.ref.data, 1, 3)

\* C7: every row of the output of a batch is what compress_pulses returns for
\* that row alone, as a 1-D signal, with the same reference.
PulseRowsIndependent ==
    (PcMade /\ Size(pcCall.sig.shape) > 0)
        => \A r \in 1..NumRows(pcCall.sig) :
              LET alone == compress_pulses([shape |-> <<SigLen>>,
                                            data |-> Row(pcCall.sig, r)],
                                           pcCall.ref)
              IN  /\ pcCall.out.exc = alone.exc
                  /\ pcCall.out.exc = "none"
                        => /\ <<LastDim(pcCall.out.shape)>> = alone.shape
                           /\ OutRow(r) = alone.data

\* A batch of two different rows of two samples was compressed with a
\* reference of two samples, and the two output rows differ.
PulseRowsIndependentWitness ==
    /\ PcMade
    /\ pcCall.out.exc = "none"
    /\ NumRows(pcCall.sig) = 2
    /\ SigLen = 2
    /\ RefLen = 2
    /\ Row(pcCall.sig, 1) # Row(pcCall.sig, 2)
    /\ OutRow(1) # OutRow(2)

\* The reference is longer than the signal's last axis, or is not 1-D.
InvalidShapes == RefLen > SigLen \/ Len(pcCall.ref.shape) # 1

\* C8: compress_pulses fails with an error whenever the reference is longer
\* than the signal's last axis or is not 1-D.
PulseRejectsInvalidShapes ==
    (PcMade /\ InvalidShapes) => pcCall.out.exc # "none"

\* ref.ravel(): the reference's samples in C order, as a 1-D array.
Ravel(a) == [shape |-> <<Size(a.shape)>>, data |-> a.data]

\* C8, amended: compress_pulses raises no error when the reference is longer
\* than the signal's last axis or is not 1-D: it returns what it returns for
\* the reference's samples taken in C order as a 1-D reference of ref.size
\* samples, and, for a signal that holds a sample, an array of last-axis
\* length max(ref.size, sigLen) - min(ref.size, sigLen) + 1.
PulseAcceptsInvalidShapes ==
    (PcMade /\ InvalidShapes)
        => /\ pcCall.out.exc = "none"
           /\ pcCall.out = compress_pulses(pcCall.sig, Ravel(pcCall.ref))
           /\ Size(pcCall.sig.shape) > 0 => HasValidShape

\* A batch of two rows was compressed with a 2-D reference that holds more
\* samples than the last axis of the signal, and an array was returned.
PulseAcceptsInvalidShapesWitness ==
    /\ PcMade
    /\ Len(pcCall.ref.shape) = 2
    /\ RefLen > SigLen
    /\ SigLen = 2
    /\ NumRows(pcCall.sig) = 2
    /\ pcCall.out.exc = "none"
    /\ pcCall.out.shape = <<2, RefLen - 1>>

\* Sample k, counted from 0, of the direct 'valid' convolution of a row with
\* the time-reversed conjugate of ref: the products of the overlapping
\* samples, the shorter of the two sliding fully inside the longer.
DirectSample(row, ref, k) ==
    IF Len(ref) <= Len(row)
    THEN CSum([i \in 1..Len(ref) |-> CMul(row[k + i], Conj(ref[i]))])
    ELSE CSum([j \in 1..Len(row) |->
                  CMul(row[j], Conj(ref[j + Len(ref) - Len(row) - k]))])

\* The latest call returned an array of the signal's leading dimensions and
\* max - min + 1 samples per row, holding the direct convolution of each row.
IsDirectConvolution ==
    /\ HasValidShape
    /\ \A r \in 1..NumRows(pcCall.sig) :
          LET row == Row(pcCall.sig, r)
              out == OutRow(r)
          IN  \A k \in 0..(ValidLen - 1) :
                 out[k + 1] = DirectSample(row, pcCall.ref.data, k)

\* C15: for every signal and every 1-D reference, shorter than, as long as
\* or longer than the signal's last axis, each of the four implementations
\* returns the same array: the direct convolution of every row with the
\* time-reversed conjugated reference.
ImplementationsAgree ==
    (pcCall.fn \in PcImpls /\ Len(pcCall.ref.shape) = 1)
        => IsDirectConvolution

\* The same statement for the signals that hold at least one sample.
ImplementationsAgreeUnlessEmpty ==
    (pcCall.fn \in PcImpls /\ Len(pcCall.ref.shape) = 1
        /\ Size(pcCall.sig.shape) > 0)
        => IsDirectConvolution

\* On a signal without samples the two loops return the allocated array and
\* the two vectorised implementations an empty 1-D array.
ImplementationsOnEmptySignal ==
    (pcCall.fn \in PcImpls /\ Len(pcCall.ref.shape) = 1
        /\ Size(pcCall.sig.shape) = 0)
        => IF pcCall.fn \in {"_pc_numpy_convolve", "_pc_scipy_convolve"}
           THEN IsDirectConvolution
           ELSE pcCall.out = PcReturned([shape |-> <<0>>, data |-> <<>>])

====
